---- MODULE Spec2Model ----
(***************************************************************************)
(* Model of the unbounded channel of src/lib.rs: the Sender handle and the  *)
(* Reciever handle unbounded() returns, and the Inner they share (a Mutex  *)
(* around Critical and a Condvar).  The source has no way to make a second *)
(* Sender; the second handle of this model exists only under CloneSpec,    *)
(* where clone() is taken from the design document.                        *)
(*                                                                         *)
(* Sender::send takes &self, so several threads may be inside send on the  *)
(* one Sender at the same time; Drop for Sender needs the handle itself    *)
(* and so runs only while no thread is inside send on it.  recv takes      *)
(* &mut self, so recv calls never overlap each other or the drop of the    *)
(* Reciever.                                                               *)
(*                                                                         *)
(* A VecDeque is a sequence whose first element is the front and whose     *)
(* last element is the back.                                               *)
(***************************************************************************)
EXTENDS Integers, Sequences, FiniteSets

\* Total number of send calls made in a run.
MaxSends == 3

\* recv calls the consumer makes beyond the number of send calls.
ExtraRecvs == 1

MaxRecvs == MaxSends + ExtraRecvs

\* The threads that call send on a Sender.
SenderThreads == {"s1", "s2"}

\* The Sender unbounded() returns, and the one a clone() of it returns.
Handles == {"tx", "tx2"}

VARIABLES
    buf,        \* Critical.buf
    senders,    \* Critical.senders
    done,       \* Critical.done
    mu,         \* who holds Inner.mu: "free", a sender thread, a handle or "rx"
    local_buf,  \* Reciever.local_buf
    spc,        \* where each sender thread is inside send
    sarg,       \* the val each sender thread passed to its latest send
    sres,       \* what each sender thread's latest send returned
    hpc,        \* each Sender handle: none, live, or where its clone or drop is
    via,        \* the handle each sender thread's latest send was called on
    rpc,        \* the Reciever: idle, where recv is, or where its drop is
    rlog,       \* what the recv calls returned so far, in order
    accepted,   \* the values pushed by send so far, in order
    sent,       \* how many send calls were made
    lastWake,   \* what last ended a Condvar wait: notify_one or a spurious wake-up
    sender_of,  \* the thread that passed each value to send
    fastMu      \* whether recv ever returned by its fast path while Inner.mu was held

vars == <<buf, senders, done, mu, local_buf, spc, sarg, sres, hpc, via, rpc, rlog,
          accepted, sent, lastWake, sender_of, fastMu>>

critical == <<buf, senders, done>>

\* The Sender unbounded() returned.
txpc == hpc["tx"]

\* The Sender handles that exist and are not dropped.
NoHandleBut(h) == \A g \in Handles \ {h} : hpc[g] \in {"none", "dropped"}

\* Critical.buf once an endpoint is gone: the Inner, and the values in its buf, are
\* dropped with the last Arc, that is, when no other endpoint is left.
buf_after_drop(last) == IF last THEN <<>> ELSE buf

----------------------------------------------------------------------------
(* VecDeque, Option and Result *)

\* VecDeque::push_back, where the code calls push_front.
push_back(q, v) == Append(q, v)

\* VecDeque::push_front
push_front(q, v) == <<v>> \o q

\* The value VecDeque::pop_back returns on a non-empty deque.
back(q) == q[Len(q)]

\* A pop_back that leaves the value in the deque.
without_back_kept(q) == q

\* The deque VecDeque::pop_back leaves behind.
without_back(q) == SubSeq(q, 1, Len(q) - 1)

\* A swap that overwrites the second deque and leaves the first as it was.
swap_lost(a, b) == <<a, a>>

\* mem::swap(&mut a, &mut b): the new <<a, b>>.
swap(a, b) == <<b, a>>

Some(v) == <<"Some", v>>

None == <<"None">>

Ok == <<"Ok">>

Err(v) == <<"Err", v>>

NoResult == <<"pending">>

\* A notify_one that wakes nobody.
notify_nobody(pc) == pc

\* Condvar::notify_one: the Reciever is the only thread that ever waits.
notify_one(pc) == IF pc = "waiting" THEN "woken" ELSE pc

woken_by(pc, how) == IF pc = "waiting" THEN how ELSE lastWake

----------------------------------------------------------------------------
(* unbounded() *)

\* A channel created with no Sender counted.
Init_uncounted ==
    /\ buf = <<>>
    /\ senders = 0
    /\ done = FALSE
    /\ mu = "free"
    /\ local_buf = <<>>
    /\ spc = [t \in SenderThreads |-> "idle"]
    /\ sarg = [t \in SenderThreads |-> 0]
    /\ sres = [t \in SenderThreads |-> NoResult]
    /\ hpc = [h \in Handles |-> IF h = "tx" THEN "live" ELSE "none"]
    /\ via = [t \in SenderThreads |-> "tx"]
    /\ rpc = "idle"
    /\ rlog = <<>>
    /\ accepted = <<>>
    /\ sent = 0
    /\ lastWake = "none"
    /\ sender_of = <<>>
    /\ fastMu = FALSE

Init ==
    /\ buf = <<>>
    /\ senders = 1
    /\ done = FALSE
    /\ mu = "free"
    /\ local_buf = <<>>
    /\ spc = [t \in SenderThreads |-> "idle"]
    /\ sarg = [t \in SenderThreads |-> 0]
    /\ sres = [t \in SenderThreads |-> NoResult]
    /\ hpc = [h \in Handles |-> IF h = "tx" THEN "live" ELSE "none"]
    /\ via = [t \in SenderThreads |-> "tx"]
    /\ rpc = "idle"
    /\ rlog = <<>>
    /\ accepted = <<>>
    /\ sent = 0
    /\ lastWake = "none"
    /\ sender_of = <<>>
    /\ fastMu = FALSE

----------------------------------------------------------------------------
(* Sender::send *)

\* A thread calls send(val) on a live Sender; each call passes a value no other
\* call passes.
SendCall(t) ==
    /\ spc[t] = "idle"
    /\ \E h \in Handles : hpc[h] = "live" /\ via' = [via EXCEPT ![t] = h]
    /\ sent < MaxSends
    /\ sent' = sent + 1
    /\ sender_of' = Append(sender_of, t)
    /\ sarg' = [sarg EXCEPT ![t] = sent + 1]
    /\ sres' = [sres EXCEPT ![t] = NoResult]
    /\ spc' = [spc EXCEPT ![t] = "lock"]
    /\ UNCHANGED <<critical, mu, local_buf, hpc, rpc, rlog, accepted, lastWake, fastMu>>

\* self.inner.mu.lock()
SendLock(t) ==
    /\ spc[t] = "lock"
    /\ mu = "free"
    /\ mu' = t
    /\ spc' = [spc EXCEPT ![t] = "check"]
    /\ UNCHANGED <<critical, local_buf, sarg, sres, hpc, via, rpc, rlog, accepted, sent,
                   lastWake>>
    /\ UNCHANGED <<sender_of, fastMu>>

\* A send that pushes without looking at done.
SendCheck_unchecked(t) ==
    /\ spc[t] = "check"
    /\ buf' = push_front(buf, sarg[t])
    /\ accepted' = Append(accepted, sarg[t])
    /\ spc' = [spc EXCEPT ![t] = "unlock"]
    /\ UNCHANGED <<sres, mu>>
    /\ UNCHANGED <<senders, done, local_buf, sarg, hpc, via, rpc, rlog, sent, lastWake>>
    /\ UNCHANGED <<sender_of, fastMu>>

\* A send with the test of done inverted.
SendCheck_inverted(t) ==
    /\ spc[t] = "check"
    /\ IF ~done
       THEN /\ sres' = [sres EXCEPT ![t] = Err(sarg[t])]
            /\ mu' = "free"
            /\ spc' = [spc EXCEPT ![t] = "idle"]
            /\ UNCHANGED <<buf, accepted>>
       ELSE /\ buf' = push_front(buf, sarg[t])
            /\ accepted' = Append(accepted, sarg[t])
            /\ spc' = [spc EXCEPT ![t] = "unlock"]
            /\ UNCHANGED <<sres, mu>>
    /\ UNCHANGED <<senders, done, local_buf, sarg, hpc, via, rpc, rlog, sent, lastWake>>
    /\ UNCHANGED <<sender_of, fastMu>>

\* if guard.done { return Err(val); }  guard.buf.push_front(val);
SendCheck(t) ==
    /\ spc[t] = "check"
    /\ IF done
       THEN /\ sres' = [sres EXCEPT ![t] = Err(sarg[t])]
            /\ mu' = "free"
            /\ spc' = [spc EXCEPT ![t] = "idle"]
            /\ UNCHANGED <<buf, accepted>>
       ELSE /\ buf' = push_front(buf, sarg[t])
            /\ accepted' = Append(accepted, sarg[t])
            /\ spc' = [spc EXCEPT ![t] = "unlock"]
            /\ UNCHANGED <<sres, mu>>
    /\ UNCHANGED <<senders, done, local_buf, sarg, hpc, via, rpc, rlog, sent, lastWake>>
    /\ UNCHANGED <<sender_of, fastMu>>

\* A send that notifies with its guard still alive.
SendUnlock_held(t) ==
    /\ spc[t] = "unlock"
    /\ spc' = [spc EXCEPT ![t] = "notify"]
    /\ UNCHANGED <<critical, mu, local_buf, sarg, sres, hpc, via, rpc, rlog, accepted, sent,
                   lastWake>>
    /\ UNCHANGED <<sender_of, fastMu>>

\* drop(guard);
SendUnlock(t) ==
    /\ spc[t] = "unlock"
    /\ mu' = "free"
    /\ spc' = [spc EXCEPT ![t] = "notify"]
    /\ UNCHANGED <<critical, local_buf, sarg, sres, hpc, via, rpc, rlog, accepted, sent,
                   lastWake>>
    /\ UNCHANGED <<sender_of, fastMu>>

\* self.inner.cond.notify_one();  Ok(())
SendNotify(t) ==
    /\ spc[t] = "notify"
    /\ rpc' = notify_one(rpc)
    /\ lastWake' = woken_by(rpc, "notify")
    /\ sres' = [sres EXCEPT ![t] = Ok]
    /\ spc' = [spc EXCEPT ![t] = "idle"]
    /\ UNCHANGED <<critical, mu, local_buf, sarg, hpc, via, rlog, accepted, sent>>
    /\ UNCHANGED <<sender_of, fastMu>>

----------------------------------------------------------------------------
(* Drop for Sender *)

\* A Sender goes out of scope: no thread is inside send or clone on it.
SenderDropCall(h) ==
    /\ hpc[h] = "live"
    /\ \A t \in SenderThreads : spc[t] = "idle" \/ via[t] # h
    /\ \A g \in Handles : hpc[g] \notin {"clone_lock", "clone_inc"}
    /\ hpc' = [hpc EXCEPT ![h] = "lock"]
    /\ UNCHANGED <<critical, mu, local_buf, spc, sarg, sres, rpc, rlog, accepted, sent,
                   lastWake>>
    /\ UNCHANGED <<via, sender_of, fastMu>>

\* self.inner.mu.lock()
SenderDropLock(h) ==
    /\ hpc[h] = "lock"
    /\ mu = "free"
    /\ mu' = h
    /\ hpc' = [hpc EXCEPT ![h] = "check"]
    /\ UNCHANGED <<critical, local_buf, spc, sarg, sres, rpc, rlog, accepted, sent,
                   lastWake>>
    /\ UNCHANGED <<via, sender_of, fastMu>>

\* A drop whose early return keeps the mutex.
SenderDropCheck_held(h) ==
    /\ hpc[h] = "check"
    /\ IF done
       THEN /\ hpc' = [hpc EXCEPT ![h] = "dropped"]
            /\ buf' = buf_after_drop(rpc = "dropped" /\ NoHandleBut(h))
            /\ UNCHANGED <<senders, mu>>
       ELSE /\ senders' = senders - 1
            /\ hpc' = [hpc EXCEPT ![h] = "dec"]
            /\ UNCHANGED <<mu, buf>>
    /\ UNCHANGED <<done, local_buf, spc, sarg, sres, rpc, rlog, accepted, sent,
                   lastWake>>
    /\ UNCHANGED <<via, sender_of, fastMu>>

\* A drop that leaves senders as it was.
SenderDropCheck_uncounted(h) ==
    /\ hpc[h] = "check"
    /\ IF done
       THEN /\ mu' = "free"
            /\ hpc' = [hpc EXCEPT ![h] = "dropped"]
            /\ buf' = buf_after_drop(rpc = "dropped" /\ NoHandleBut(h))
            /\ UNCHANGED senders
       ELSE /\ hpc' = [hpc EXCEPT ![h] = "dec"]
            /\ UNCHANGED <<senders, mu, buf>>
    /\ UNCHANGED <<done, local_buf, spc, sarg, sres, rpc, rlog, accepted, sent,
                   lastWake>>
    /\ UNCHANGED <<via, sender_of, fastMu>>

\* if guard.done { return; }  guard.senders -= 1;
SenderDropCheck(h) ==
    /\ hpc[h] = "check"
    /\ IF done
       THEN /\ mu' = "free"
            /\ hpc' = [hpc EXCEPT ![h] = "dropped"]
            /\ buf' = buf_after_drop(rpc = "dropped" /\ NoHandleBut(h))
            /\ UNCHANGED senders
       ELSE /\ senders' = senders - 1
            /\ hpc' = [hpc EXCEPT ![h] = "dec"]
            /\ UNCHANGED <<mu, buf>>
    /\ UNCHANGED <<done, local_buf, spc, sarg, sres, rpc, rlog, accepted, sent,
                   lastWake>>
    /\ UNCHANGED <<via, sender_of, fastMu>>

\* A drop of the last Sender that notifies without setting done.
SenderDropZero_open(h) ==
    /\ hpc[h] = "dec"
    /\ hpc' = [hpc EXCEPT ![h] = IF senders = 0 THEN "notify" ELSE "dropped"]
    /\ mu' = "free"
    /\ UNCHANGED <<buf, senders, done, local_buf, spc, sarg, sres, rpc, rlog, accepted,
                   sent, lastWake>>
    /\ UNCHANGED <<via, sender_of, fastMu>>

\* A drop that sets done whatever senders is.
SenderDropZero_any(h) ==
    /\ hpc[h] = "dec"
    /\ done' = TRUE
    /\ hpc' = [hpc EXCEPT ![h] = "notify"]
    /\ mu' = "free"
    /\ UNCHANGED <<buf, senders, local_buf, spc, sarg, sres, rpc, rlog, accepted, sent,
                   lastWake>>
    /\ UNCHANGED <<via, sender_of, fastMu>>

\* if guard.senders == 0 { guard.done = true; drop(guard); ... }
SenderDropZero(h) ==
    /\ hpc[h] = "dec"
    /\ IF senders = 0
       THEN /\ done' = TRUE
            /\ hpc' = [hpc EXCEPT ![h] = "notify"]
            /\ UNCHANGED buf
       ELSE /\ hpc' = [hpc EXCEPT ![h] = "dropped"]
            /\ buf' = buf_after_drop(rpc = "dropped" /\ NoHandleBut(h))
            /\ UNCHANGED done
    /\ mu' = "free"
    /\ UNCHANGED <<senders, local_buf, spc, sarg, sres, rpc, rlog, accepted, sent,
                   lastWake>>
    /\ UNCHANGED <<via, sender_of, fastMu>>

\* self.inner.cond.notify_one();
SenderDropNotify(h) ==
    /\ hpc[h] = "notify"
    /\ rpc' = notify_one(rpc)
    /\ lastWake' = woken_by(rpc, "notify")
    /\ hpc' = [hpc EXCEPT ![h] = "dropped"]
    /\ buf' = buf_after_drop(rpc = "dropped" /\ NoHandleBut(h))
    /\ UNCHANGED <<senders, done, mu, local_buf, spc, sarg, sres, rlog, accepted, sent>>
    /\ UNCHANGED <<via, sender_of, fastMu>>

----------------------------------------------------------------------------
(* Reciever::recv *)

\* A recv that goes to the queue of the channel whatever local_buf holds.
RecvCall_slow_only ==
    /\ rpc = "idle"
    /\ Len(rlog) < MaxRecvs
    /\ rpc' = "lock"
    /\ UNCHANGED <<rlog, local_buf, fastMu>>
    /\ UNCHANGED <<critical, mu, spc, sarg, sres, hpc, via, accepted, sent, lastWake>>
    /\ UNCHANGED <<sender_of>>

\* A recv whose fast path needs the mutex to be free.
RecvCall_locked ==
    /\ rpc = "idle"
    /\ Len(rlog) < MaxRecvs
    /\ IF local_buf # <<>>
       THEN /\ mu = "free"
            /\ rlog' = Append(rlog, Some(back(local_buf)))
            /\ local_buf' = without_back(local_buf)
            /\ fastMu' = (fastMu \/ mu # "free")
            /\ UNCHANGED rpc
       ELSE /\ rpc' = "lock"
            /\ UNCHANGED <<rlog, local_buf, fastMu>>
    /\ UNCHANGED <<critical, mu, spc, sarg, sres, hpc, via, accepted, sent, lastWake>>
    /\ UNCHANGED <<sender_of>>

\* if let Some(v) = self.local_buf.pop_back() { return Some(v); }
RecvCall ==
    /\ rpc = "idle"
    /\ Len(rlog) < MaxRecvs
    /\ IF local_buf # <<>>
       THEN /\ rlog' = Append(rlog, Some(back(local_buf)))
            /\ local_buf' = without_back(local_buf)
            /\ fastMu' = (fastMu \/ mu # "free")
            /\ UNCHANGED rpc
       ELSE /\ rpc' = "lock"
            /\ UNCHANGED <<rlog, local_buf, fastMu>>
    /\ UNCHANGED <<critical, mu, spc, sarg, sres, hpc, via, accepted, sent, lastWake>>
    /\ UNCHANGED <<sender_of>>

\* let mut guard = self.inner.mu.lock().unwrap();
RecvLock ==
    /\ rpc = "lock"
    /\ mu = "free"
    /\ mu' = "rx"
    /\ rpc' = "match"
    /\ UNCHANGED <<critical, local_buf, spc, sarg, sres, hpc, via, rlog, accepted, sent,
                   lastWake>>
    /\ UNCHANGED <<sender_of, fastMu>>

\* A match that looks at done before it pops.
RecvMatch_done_first ==
    /\ rpc = "match"
    /\ mu' = "free"
    /\ IF done
       THEN /\ rlog' = Append(rlog, None)
            /\ rpc' = "idle"
            /\ UNCHANGED <<buf, local_buf>>
       ELSE IF buf # <<>>
       THEN /\ rlog' = Append(rlog, Some(back(buf)))
            /\ local_buf' = swap(local_buf, without_back(buf))[1]
            /\ buf' = swap(local_buf, without_back(buf))[2]
            /\ rpc' = "idle"
       ELSE /\ rpc' = "waiting"
            /\ UNCHANGED <<rlog, buf, local_buf>>
    /\ UNCHANGED <<senders, done, spc, sarg, sres, hpc, via, accepted, sent, lastWake>>
    /\ UNCHANGED <<sender_of, fastMu>>

\* A match that returns None on an empty queue without looking at done.
RecvMatch_no_wait ==
    /\ rpc = "match"
    /\ mu' = "free"
    /\ IF buf # <<>>
       THEN /\ rlog' = Append(rlog, Some(back(buf)))
            /\ local_buf' = swap(local_buf, without_back(buf))[1]
            /\ buf' = swap(local_buf, without_back(buf))[2]
            /\ rpc' = "idle"
       ELSE /\ rlog' = Append(rlog, None)
            /\ rpc' = "idle"
            /\ UNCHANGED <<buf, local_buf>>
    /\ UNCHANGED <<senders, done, spc, sarg, sres, hpc, via, accepted, sent, lastWake>>
    /\ UNCHANGED <<sender_of, fastMu>>

\* match guard.buf.pop_back() { Some(v) => swap, return | None if done => return |
\* None => wait }.  A return drops the guard; wait releases the mutex and parks.
RecvMatch ==
    /\ rpc = "match"
    /\ mu' = "free"
    /\ IF buf # <<>>
       THEN /\ rlog' = Append(rlog, Some(back(buf)))
            /\ local_buf' = swap(local_buf, without_back(buf))[1]
            /\ buf' = swap(local_buf, without_back(buf))[2]
            /\ rpc' = "idle"
       ELSE IF done
       THEN /\ rlog' = Append(rlog, None)
            /\ rpc' = "idle"
            /\ UNCHANGED <<buf, local_buf>>
       ELSE /\ rpc' = "waiting"
            /\ UNCHANGED <<rlog, buf, local_buf>>
    /\ UNCHANGED <<senders, done, spc, sarg, sres, hpc, via, accepted, sent, lastWake>>
    /\ UNCHANGED <<sender_of, fastMu>>

\* Condvar::wait may return without a notification.
SpuriousWake ==
    /\ rpc = "waiting"
    /\ rpc' = "woken"
    /\ lastWake' = "spurious"
    /\ UNCHANGED <<critical, mu, local_buf, spc, sarg, sres, hpc, via, rlog, accepted, sent>>
    /\ UNCHANGED <<sender_of, fastMu>>

\* Condvar::wait takes the mutex again before it returns.
RecvWakeLock ==
    /\ rpc = "woken"
    /\ mu = "free"
    /\ mu' = "rx"
    /\ rpc' = "rewoken"
    /\ UNCHANGED <<critical, local_buf, spc, sarg, sres, hpc, via, rlog, accepted, sent,
                   lastWake>>
    /\ UNCHANGED <<sender_of, fastMu>>

\* The guard wait returned is dropped at the end of the statement; the loop goes round.
RecvWakeUnlock ==
    /\ rpc = "rewoken"
    /\ mu' = "free"
    /\ rpc' = "lock"
    /\ UNCHANGED <<critical, local_buf, spc, sarg, sres, hpc, via, rlog, accepted, sent,
                   lastWake>>
    /\ UNCHANGED <<sender_of, fastMu>>

----------------------------------------------------------------------------
(* Drop for Reciever *)

\* The Reciever goes out of scope: no recv is in progress.
RecieverDropCall ==
    /\ rpc = "idle"
    /\ rpc' = "drop_lock"
    /\ UNCHANGED <<critical, mu, local_buf, spc, sarg, sres, hpc, via, rlog, accepted, sent,
                   lastWake>>
    /\ UNCHANGED <<sender_of, fastMu>>

\* let mut guard = self.inner.mu.lock().unwrap();
RecieverDropLock ==
    /\ rpc = "drop_lock"
    /\ mu = "free"
    /\ mu' = "rx"
    /\ rpc' = "drop_set"
    /\ UNCHANGED <<critical, local_buf, spc, sarg, sres, hpc, via, rlog, accepted, sent,
                   lastWake>>
    /\ UNCHANGED <<sender_of, fastMu>>

\* A drop of the Reciever that leaves done as it was.
RecieverDropSet_open ==
    /\ rpc = "drop_set"
    /\ mu' = "free"
    /\ local_buf' = <<>>
    /\ rpc' = "dropped"
    /\ buf' = buf_after_drop(NoHandleBut("rx"))
    /\ UNCHANGED <<senders, done, spc, sarg, sres, hpc, via, rlog, accepted, sent,
                   lastWake>>
    /\ UNCHANGED <<sender_of, fastMu>>

\* guard.done = true;  then the guard and the fields of the Reciever are dropped:
\* local_buf with its values, and the Arc of the Inner.
RecieverDropSet ==
    /\ rpc = "drop_set"
    /\ done' = TRUE
    /\ mu' = "free"
    /\ local_buf' = <<>>
    /\ rpc' = "dropped"
    /\ buf' = buf_after_drop(NoHandleBut("rx"))
    /\ UNCHANGED <<senders, spc, sarg, sres, hpc, via, rlog, accepted, sent, lastWake>>
    /\ UNCHANGED <<sender_of, fastMu>>

----------------------------------------------------------------------------

Next ==
    \/ \E t \in SenderThreads : SendCall(t)
    \/ \E t \in SenderThreads : SendLock(t)
    \/ \E t \in SenderThreads : SendCheck(t)
    \/ \E t \in SenderThreads : SendUnlock(t)
    \/ \E t \in SenderThreads : SendNotify(t)
    \/ \E h \in Handles : SenderDropCall(h)
    \/ \E h \in Handles : SenderDropLock(h)
    \/ \E h \in Handles : SenderDropCheck(h)
    \/ \E h \in Handles : SenderDropZero(h)
    \/ \E h \in Handles : SenderDropNotify(h)
    \/ RecvCall
    \/ RecvLock
    \/ RecvMatch
    \/ SpuriousWake
    \/ RecvWakeLock
    \/ RecvWakeUnlock
    \/ RecieverDropCall
    \/ RecieverDropLock
    \/ RecieverDropSet

Spec == Init /\ [][Next]_vars

\* Every thread that is inside a call keeps running, the mutex is handed to whoever
\* asks for it once it stays free, and the consumer keeps calling recv.  Nothing
\* obliges a thread to start a send or a drop, nor the Condvar to wake spuriously.
\* The steps of one call follow one another, so at most one of them is enabled at
\* a time and one condition for each thread covers them all.
Fairness ==
    /\ \A t \in SenderThreads :
          WF_vars(SendLock(t) \/ SendCheck(t) \/ SendUnlock(t) \/ SendNotify(t))
    /\ \A h \in Handles :
          WF_vars(SenderDropLock(h) \/ SenderDropCheck(h) \/ SenderDropZero(h)
                     \/ SenderDropNotify(h))
    /\ WF_vars(RecvCall \/ RecvLock \/ RecvMatch \/ RecvWakeLock \/ RecvWakeUnlock
                  \/ RecieverDropLock \/ RecieverDropSet)

FairSpec == Spec /\ Fairness

----------------------------------------------------------------------------
(* clone(), which the source lacks: "under the mutex, increment producer_count, *)
(* then return a new handle sharing the same core".                             *)

\* clone() is called on a live Sender; the handle it will return does not exist yet.
CloneCall(h) ==
    /\ hpc[h] = "none"
    /\ \E g \in Handles : hpc[g] = "live"
    /\ hpc' = [hpc EXCEPT ![h] = "clone_lock"]
    /\ UNCHANGED <<critical, mu, local_buf, spc, sarg, sres, via, rpc, rlog, accepted,
                   sent, lastWake, sender_of, fastMu>>

\* clone() takes the mutex.
CloneLock(h) ==
    /\ hpc[h] = "clone_lock"
    /\ mu = "free"
    /\ mu' = h
    /\ hpc' = [hpc EXCEPT ![h] = "clone_inc"]
    /\ UNCHANGED <<critical, local_buf, spc, sarg, sres, via, rpc, rlog, accepted, sent,
                   lastWake, sender_of, fastMu>>

\* clone() increments senders, releases the mutex and returns the new handle.
CloneInc(h) ==
    /\ hpc[h] = "clone_inc"
    /\ senders' = senders + 1
    /\ mu' = "free"
    /\ hpc' = [hpc EXCEPT ![h] = "live"]
    /\ UNCHANGED <<buf, done, local_buf, spc, sarg, sres, via, rpc, rlog, accepted, sent,
                   lastWake, sender_of, fastMu>>

CloneNext ==
    \/ Next
    \/ \E h \in Handles : CloneCall(h)
    \/ \E h \in Handles : CloneLock(h)
    \/ \E h \in Handles : CloneInc(h)

\* The channel with the clone() of the design document added to it.
CloneSpec == Init /\ [][CloneNext]_vars

----------------------------------------------------------------------------
(* What the claims speak of *)

IsSome(r) == r[1] = "Some"

\* The values recv returned so far, in order.
received ==
    LET somes == SelectSeq(rlog, IsSome)
    IN  [i \in 1..Len(somes) |-> somes[i][2]]

\* A recv call has passed the fast path and has not returned.
RecvInProgress == rpc \in {"lock", "match", "waiting", "woken", "rewoken"}

\* The drop of the Reciever has begun.
RecieverGoing == rpc \in {"drop_lock", "drop_set", "dropped"}

\* The drop of the Reciever has run.
RecieverDropped == rpc = "dropped"

\* The drop of the Sender has left its critical section.
SenderDropped == txpc \in {"notify", "dropped"}

IsPrefix(s, t) == Len(s) <= Len(t) /\ \A i \in 1..Len(s) : s[i] = t[i]

----------------------------------------------------------------------------

\* C1: the values recv has returned so far, by the fast path and the slow path
\* together, are a prefix of the values send has pushed, in the order of the pushes:
\* none is returned twice, skipped or returned out of order.
C1_RecvIsPrefixOfSends == IsPrefix(received, accepted)

\* The slow path returned the oldest value and swapped the next one into the local
\* buffer, and a newer value has since been pushed on the shared queue.
C1_Witness ==
    /\ received = <<1>>
    /\ local_buf = <<2>>
    /\ buf = <<3>>

\* C2: if the consumer is never disposed and keeps calling recv, every value a send
\* pushed is eventually returned by recv, at the position it was pushed at, and no
\* value is returned twice.
C2_EverySentValueIsReceivedOnce ==
    /\ \A i \in 1..MaxSends :
          (Len(accepted) >= i) ~>
              (RecieverGoing \/ (Len(received) >= i /\ received[i] = accepted[i]))
    /\ [](\A i, j \in 1..Len(received) : received[i] = received[j] => i = j)

\* Every send call was made and accepted, and recv has returned all the values.
C2_Witness ==
    /\ Len(accepted) = MaxSends
    /\ received = accepted
    /\ ~RecieverGoing

\* C3: a recv past the fast path returns once a value is in the shared queue, with
\* Some, and once done is set with nothing left to deliver, with None.
C3_NoLostWakeup ==
    /\ (RecvInProgress /\ Len(accepted) > Len(received)) ~> ~RecvInProgress
    /\ (RecvInProgress /\ done /\ Len(accepted) = Len(received)) ~> ~RecvInProgress
    /\ [][(RecvInProgress /\ ~RecvInProgress') =>
             /\ Len(rlog') = Len(rlog) + 1
             /\ IF Len(accepted) > Len(received)
                THEN rlog'[Len(rlog')] = Some(accepted[Len(received) + 1])
                ELSE done /\ rlog'[Len(rlog')] = None]_vars

\* The first recv waited on the Condvar, a notify_one ended the wait, and the recv
\* returned the value sent.
C3_Witness ==
    /\ rlog = <<Some(1)>>
    /\ lastWake = "notify"
    /\ rpc = "idle"

\* C4: once the Reciever is dropped, a send that runs its critical section returns
\* Err with the value it was given, leaves the shared queue as it was, has released
\* the mutex, and every send in progress returns.
C4_SendAfterRecieverDropFails ==
    /\ [][\A t \in SenderThreads :
            (RecieverDropped /\ spc[t] = "check" /\ spc'[t] # "check") =>
                /\ sres'[t] = Err(sarg[t])
                /\ spc'[t] = "idle"
                /\ mu' = "free"
                /\ buf' = buf]_vars
    /\ \A t \in SenderThreads :
          (RecieverDropped /\ spc[t] # "idle") ~> (spc[t] = "idle")

\* closed_rx: the Reciever was dropped with the Sender live, and a send called after
\* that returned Err with its value.
C4_Witness ==
    /\ RecieverDropped
    /\ txpc = "live"
    /\ buf = <<>>
    /\ sent = 1
    /\ \E t \in SenderThreads : spc[t] = "idle" /\ sres[t] = Err(1)

\* C5: once the Sender is dropped and both the shared queue and the local buffer are
\* empty, a recv that reaches its match returns None and does not wait; and after a
\* recv returned None every later recv returns None.
C5_RecvAfterSenderDropIsNone ==
    /\ [][(SenderDropped /\ buf = <<>> /\ local_buf = <<>>
              /\ rpc = "match" /\ rpc' # "match") =>
                (rpc' = "idle" /\ rlog' = Append(rlog, None))]_vars
    /\ [](\A i, j \in 1..Len(rlog) : (i < j /\ rlog[i] = None) => rlog[j] = None)

\* closed_tx, twice: the Sender was dropped and two recv calls in a row returned None.
C5_Witness ==
    /\ txpc = "dropped"
    /\ Len(rlog) >= 2
    /\ rlog[Len(rlog)] = None
    /\ rlog[Len(rlog) - 1] = None

\* C6: recv returns None only from a state where done is set and both the shared
\* queue and the local buffer are empty; by the first None every value pushed has
\* been returned.
C6_NoneOnlyWhenDrained ==
    /\ [][(rlog' # rlog /\ rlog'[Len(rlog')] = None) =>
                (done /\ buf = <<>> /\ local_buf = <<>>)]_vars
    /\ []((\E i \in 1..Len(rlog) : rlog[i] = None) => received = accepted)

\* A value was sent, the Sender dropped, and recv returned the value and then None.
C6_Witness ==
    /\ rlog = <<Some(1), None>>
    /\ accepted = <<1>>
    /\ txpc = "dropped"

\* C7: no recv returns from a state where done is unset and both the shared queue
\* and the local buffer are empty; a recv that reaches its match there, also after a
\* spurious wake-up, goes to wait.
C7_RecvBlocksWhileOpenAndEmpty ==
    [][/\ (rlog' # rlog) => ~(~done /\ buf = <<>> /\ local_buf = <<>>)
       /\ (~done /\ buf = <<>> /\ rpc = "match" /\ rpc' # "match") =>
              (rpc' = "waiting" /\ rlog' = rlog)]_vars

\* A spurious wake-up ended the wait of a recv on the open, empty channel, and the
\* recv is waiting again without having returned.
C7_Witness ==
    /\ rpc = "waiting"
    /\ lastWake = "spurious"
    /\ rlog = <<>>
    /\ ~done
    /\ buf = <<>>

\* C8: a send whose critical section runs while the Reciever is not dropped pushes
\* its value and returns Ok; while the Sender is live, done is set only by the drop
\* of the Reciever.
C8_LiveSendSucceeds ==
    /\ [][\A t \in SenderThreads :
            /\ (~RecieverDropped /\ spc[t] = "check" /\ spc'[t] # "check") =>
                   (spc'[t] = "unlock" /\ buf' = push_front(buf, sarg[t]))
            /\ (spc[t] = "unlock" /\ spc'[t] # "unlock") => spc'[t] = "notify"
            /\ (spc[t] = "notify" /\ spc'[t] # "notify") =>
                   (spc'[t] = "idle" /\ sres'[t] = Ok)]_vars
    /\ []((done /\ txpc = "live") => RecieverDropped)

\* Both threads sent through the live Sender while the Reciever was live, and both
\* sends returned Ok with their values on the shared queue.
C8_Witness ==
    /\ ~RecieverGoing
    /\ txpc = "live"
    /\ \A t \in SenderThreads : spc[t] = "idle" /\ sres[t] = Ok
    /\ Len(buf) = 2

\* No send is between its push and its return: the sends that pushed a value are
\* then exactly the sends that returned Ok.
SendsSettled == \A t \in SenderThreads : spc[t] \notin {"unlock", "notify"}

ResidentMatchesCounts == Len(accepted) - Len(received) = Len(buf) + Len(local_buf)

\* C9 as stated: in every reachable state the number of sends that returned Ok minus
\* the number of recv calls that returned a value is the number of values in the
\* shared queue plus the number in the local buffer.
C9_AsStated == SendsSettled => ResidentMatchesCounts

\* C9, amended: in every reachable state in which the Reciever has not been dropped,
\* the number of sends that pushed their value (the sends that return Ok) minus the
\* number of recv calls that returned a value is the number of values in the shared
\* queue plus the number in the local buffer.
C9_CountsMatchWhileRecieverLive == ~RecieverDropped => ResidentMatchesCounts

\* Values are resident in the local buffer and in the shared queue at once.
C9_Witness ==
    /\ ~RecieverGoing
    /\ Len(received) = 1
    /\ Len(local_buf) = 1
    /\ Len(buf) = 1

\* No drop is inside its critical section.
NoDropInCriticalSection == txpc \notin {"check", "dec"} /\ rpc # "drop_set"

\* C10: outside the critical sections of the drops, done is set exactly when the
\* Reciever has been dropped or senders is 0; and senders reaches 0 only while the
\* Reciever is not dropped.
C10_DoneIffDisposedOrNoSenders ==
    /\ [](NoDropInCriticalSection => (done <=> (RecieverDropped \/ senders = 0)))
    /\ [][(senders # 0 /\ senders' = 0) => ~RecieverDropped]_vars

\* The Sender was dropped first, which brought senders to 0 and set done, and the
\* Reciever was dropped after it.
C10_Witness ==
    /\ done
    /\ senders = 0
    /\ txpc = "dropped"
    /\ RecieverDropped

\* A Sender handle that is still counted in senders and not being dropped.
Live(h) == hpc[h] \in {"live", "lock"}

\* The drop of handle h leaves its critical section in this step.
DropLeavesCriticalSection(h) ==
    hpc[h] \in {"check", "dec"} /\ hpc'[h] \notin {"check", "dec"}

\* C11: with the clone() of the design document, a clone increments senders under
\* the mutex; the drop of one Sender while another is live leaves done as it was;
\* a send whose critical section runs while the Reciever is not dropped pushes its
\* value; done is set only by the drop of the Reciever or by the drop of the last
\* Sender; and the values one thread sent are returned in the order it sent them.
C11_ClonedSendersShareTheChannel ==
    /\ [][\A h \in Handles :
            /\ (hpc[h] = "clone_inc" /\ hpc'[h] # "clone_inc") =>
                   (mu = h /\ senders' = senders + 1 /\ hpc'[h] = "live")
            /\ (DropLeavesCriticalSection(h) /\ \E g \in Handles \ {h} : Live(g)) =>
                   done' = done
            /\ (DropLeavesCriticalSection(h) /\ ~done /\ done') =>
                   \A g \in Handles \ {h} : hpc[g] \in {"none", "notify", "dropped"}]_vars
    /\ [][(~done /\ done') =>
             \/ rpc = "drop_set" /\ rpc' = "dropped"
             \/ \E h \in Handles : DropLeavesCriticalSection(h)]_vars
    /\ [][\A t \in SenderThreads :
            (~RecieverDropped /\ spc[t] = "check" /\ spc'[t] # "check") =>
                (spc'[t] = "unlock" /\ buf' = push_front(buf, sarg[t]))]_vars
    /\ [](\A i, j \in 1..Len(received) :
            (i < j /\ sender_of[received[i]] = sender_of[received[j]]) =>
                received[i] < received[j])

\* The Sender was cloned and then dropped, which left done unset; a thread has sent
\* through the clone, and recv has returned two values of one thread.
C11_Witness ==
    /\ hpc["tx"] = "dropped"
    /\ hpc["tx2"] = "live"
    /\ ~done
    /\ senders = 1
    /\ \E t \in SenderThreads : via[t] = "tx2" /\ spc[t] = "idle" /\ sres[t] = Ok
    /\ Len(received) = 2
    /\ sender_of[received[1]] = sender_of[received[2]]

\* C12: once the Reciever has been dropped and every send has returned, no value
\* remains in the queue of the channel or in the local buffer of the Reciever,
\* whether or not a Sender is live.
C12_AsStated ==
    (RecieverDropped /\ \A t \in SenderThreads : spc[t] = "idle") =>
        (buf = <<>> /\ local_buf = <<>>)

\* C13: done never goes from true to false, and once done is true the queue of the
\* channel never grows; a send that finds done returns its value in Err.
C13_DoneIsMonotone ==
    /\ [][done => done']_vars
    /\ [][done => Len(buf') <= Len(buf)]_vars
    /\ [][\A t \in SenderThreads :
            (done /\ spc[t] = "check" /\ spc'[t] # "check") =>
                (buf' = buf /\ sres'[t] = Err(sarg[t]))]_vars

\* done was set by the drop of the Sender with a value in the queue; a later recv
\* took the value out, and done is still set.
C13_Witness ==
    /\ done
    /\ SenderDropped
    /\ Len(accepted) = 2
    /\ Len(received) = 1
    /\ Len(buf) + Len(local_buf) = 1
    /\ ~RecieverDropped

\* The number of Sender handles that are live: created and not yet being dropped.
LiveSenders == Cardinality({h \in Handles : Live(h)})

\* C14 as stated: in every reachable state in which no drop is inside its critical
\* section, senders is the number of live Senders, also when the Reciever was
\* dropped before the Sender.
C14_AsStated == NoDropInCriticalSection => senders = LiveSenders

\* C14, amended: in every reachable state in which no drop is inside its critical
\* section, senders is the number of live Senders as long as the Reciever has not
\* been dropped; a Sender dropped after the Reciever finds done set and returns
\* without decrementing, so that senders then stays one above the number of live
\* Senders.
C14_SendersCountsLiveSenders ==
    /\ []((NoDropInCriticalSection /\ ~RecieverDropped) => senders = LiveSenders)
    /\ []((NoDropInCriticalSection /\ RecieverDropped) =>
             senders = LiveSenders + (IF txpc = "dropped" /\ senders # 0 THEN 1 ELSE 0))
    /\ [][\A h \in Handles :
            (hpc[h] = "check" /\ done /\ hpc'[h] # "check") =>
                (senders' = senders /\ hpc'[h] = "dropped")]_vars
    /\ []((RecieverDropped /\ txpc = "dropped" /\ senders # 0) => senders = 1)

\* The Reciever was dropped first and the Sender after it: no Sender is live and
\* senders is still 1.
C14_Witness ==
    /\ RecieverDropped
    /\ txpc = "dropped"
    /\ senders = 1
    /\ LiveSenders = 0

\* C15: senders is 1 when the channel is created, no step increases it, it is never
\* below 0, and the decrement of Drop for Sender runs only while senders is above 0,
\* in whichever order the Sender and the Reciever are dropped.
C15_SendersNeverUnderflows ==
    /\ senders = 1
    /\ [][senders' <= senders]_vars
    /\ [](senders >= 0)
    /\ [][\A h \in Handles :
            (hpc[h] = "check" /\ hpc'[h] = "dec") =>
                (senders > 0 /\ senders' = senders - 1)]_vars

\* The drop of the Sender has decremented senders to 0 while the drop of the Reciever
\* waits for the mutex.
C15_Witness ==
    /\ senders = 0
    /\ txpc \in {"dec", "notify"}
    /\ rpc = "drop_lock"

\* The slow path of recv has its value: the match on pop_back() takes the Some arm.
SlowPathPops == rpc = "match" /\ buf # <<>>

\* C16: the slow path of recv runs with local_buf empty; when it pops the back of
\* the queue, the swap leaves the queue of the channel empty and local_buf holding
\* the rest of the queue in the same order, and recv returns the value popped.
C16_SwapOnEmptyLocalBuf ==
    /\ [](RecvInProgress => local_buf = <<>>)
    /\ [][(SlowPathPops /\ rpc' # "match") =>
            /\ local_buf = <<>>
            /\ buf' = <<>>
            /\ local_buf' = without_back(buf)
            /\ rlog' = Append(rlog, Some(back(buf)))]_vars

\* The slow path popped 1 out of a queue of three values: the other two are in
\* local_buf and the queue of the channel is empty.
C16_Witness ==
    /\ received = <<1>>
    /\ local_buf = <<3, 2>>
    /\ buf = <<>>
    /\ rpc = "idle"

\* C17: a thread that is about to call notify_one does not hold the mutex, and the
\* mutex is held only by a thread inside a critical section, none of whose steps
\* blocks; a Reciever parked in Condvar::wait does not hold it.
C17_NotifyAfterUnlock ==
    /\ \A t \in SenderThreads : spc[t] = "notify" => mu # t
    /\ \A h \in Handles : hpc[h] = "notify" => mu # h
    /\ \A t \in SenderThreads : mu = t => spc[t] \in {"check", "unlock"}
    /\ \A h \in Handles : mu = h => hpc[h] \in {"check", "dec"}
    /\ mu = "rx" => rpc \in {"match", "rewoken", "drop_set"}
    /\ rpc \in {"waiting", "woken"} => mu # "rx"

\* A send has released the mutex and is about to notify while the Reciever already
\* holds the mutex.
C17_Witness ==
    /\ \E t \in SenderThreads : spc[t] = "notify"
    /\ mu = "rx"
    /\ rpc = "match"

\* The place of value v in the order in which send pushed the values.
PushIndex(v) == CHOOSE i \in 1..Len(accepted) : accepted[i] = v

\* recv is called with a value in local_buf.
FastPath == rpc = "idle" /\ local_buf # <<>> /\ Len(rlog) < MaxRecvs

\* C18: with a value in local_buf recv returns the oldest value of local_buf without
\* taking the mutex: the step can be taken while another thread holds the mutex, and
\* it leaves the queue of the channel, senders, done and the mutex as they were.
C18_FastPathTakesNoLock ==
    /\ [](FastPath => ENABLED RecvCall)
    /\ [][(FastPath /\ rlog' # rlog) =>
            /\ rlog' = Append(rlog, Some(back(local_buf)))
            /\ \A i \in 1..Len(local_buf) :
                  PushIndex(back(local_buf)) <= PushIndex(local_buf[i])
            /\ local_buf' = without_back(local_buf)
            /\ UNCHANGED <<buf, senders, done, mu>>
            /\ rpc' = "idle"]_vars

\* recv has returned a value on its fast path while a Sender held the mutex.
C18_Witness ==
    /\ fastMu
    /\ Len(received) >= 2
    /\ rpc = "idle"

----------------------------------------------------------------------------
(* Fair acquisition of the mutex *)

\* The source has one Sender, so the drops of Senders are the steps of one thread.
\* Every thread keeps being scheduled, and a thread that waits in lock() gets the
\* mutex if the mutex is free again and again, however often other threads take it
\* in between.
LockFairness ==
    /\ \A t \in SenderThreads :
          SF_vars(SendLock(t) \/ SendCheck(t) \/ SendUnlock(t) \/ SendNotify(t))
    /\ SF_vars(\E h \in Handles :
                  SenderDropLock(h) \/ SenderDropCheck(h) \/ SenderDropZero(h)
                     \/ SenderDropNotify(h))
    /\ SF_vars(RecvCall \/ RecvLock \/ RecvMatch \/ RecvWakeLock \/ RecvWakeUnlock
                  \/ RecieverDropLock \/ RecieverDropSet)

LockFairSpec == Spec /\ LockFairness

\* A send, a drop of a Sender, the drop of the Reciever is in progress.
SendGoing(t) == spc[t] # "idle"

SenderDropGoing(h) == hpc[h] \in {"lock", "check", "dec", "notify"}

RecieverDropGoing == rpc \in {"drop_lock", "drop_set"}

\* No send and no drop is in progress.
Quiet ==
    /\ \A t \in SenderThreads : ~SendGoing(t)
    /\ \A h \in Handles : ~SenderDropGoing(h)
    /\ ~RecieverDropGoing

\* C19: with fair scheduling and fair acquisition of the mutex, every send, every
\* drop of a Sender and the drop of the Reciever returns: whatever is in progress,
\* a state follows in which none of them is.  None of them is ever parked on the
\* condition variable, and each has released the mutex when it returns, the early
\* return of Drop for Sender included.
C19_SendAndDropsTerminate ==
    /\ []<>Quiet
    /\ [](\A t \in SenderThreads : ~SendGoing(t) => mu # t)
    /\ [](\A h \in Handles : ~SenderDropGoing(h) => mu # h)
    /\ [](~(RecvInProgress \/ RecieverDropGoing) => mu # "rx")
    /\ [][\A h \in Handles :
            (hpc[h] = "check" /\ done /\ hpc'[h] # "check") =>
                (mu = h /\ mu' = "free")]_vars

\* Every operation has returned: the Sender was dropped after the Reciever, on the
\* early return that leaves senders at 1, after a send had failed, and the mutex is
\* free.
C19_Witness ==
    /\ rpc = "dropped"
    /\ txpc = "dropped"
    /\ senders = 1
    /\ mu = "free"
    /\ \A t \in SenderThreads : ~SendGoing(t)
    /\ \E t \in SenderThreads : sres[t] # Ok /\ sres[t] # NoResult

====
